---- MODULE Spec2Model ----
(***************************************************************************)
(* Model of the stormglass marine-weather glue application:                *)
(*   stormglass_client.py  StormglassClient (_pick_index, _get_value,      *)
(*                         fetch_point, extract_values)                    *)
(*   utils.py              to_knots, normalize_input_df                    *)
(*   app.py                _fetch_one, enrich_df                           *)
(*                                                                         *)
(* Instants are minutes on one time line.  An ISO-8601 string is a record  *)
(* [kind, local, aware, off]: kind "iso" is a well formed string showing   *)
(* the wall-clock minute `local` and, when `aware`, a UTC offset `off`;    *)
(* kind "bad" is a string isoparse rejects, "empty" is "", "absent" is a   *)
(* missing key or null.  Numbers are fixed point, in thousandths.          *)
(***************************************************************************)
EXTENDS Integers, Sequences, FiniteSets, TLC

VARIABLES
    pHours, pReq, pOut,          \* one call of _pick_index
    vObj, vPref, vOut,           \* one call of _get_value
    fReq, fUp, fOut,             \* one call of _fetch_one
    uPayload, uOut,              \* the unit step of _fetch_one on a payload
    points, ups, rows, pc, table,\* one run of enrich_df
    nCols, nOut                  \* one call of normalize_input_df

vars == <<pHours, pReq, pOut, vObj, vPref, vOut, fReq, fUp, fOut,
          uPayload, uOut, points, ups, rows, pc, table, nCols, nOut>>

----------------------------------------------------------------------------
(* Bounds *)
MaxHours == 3        \* longest sample list handed to _pick_index
MaxPickTick == 3     \* instants 0, Tick, ..., MaxPickTick*Tick for _pick_index
MaxSources == 3      \* most entries of one source mapping
MaxSamples == 3      \* most samples in one upstream response
MaxPoints == 3       \* most request points in one batch
MaxCols == 4         \* most columns of an uploaded table

(* Program constants and the time grid *)
HOUR == 60           \* minutes in the hour nearest_hour truncates to
Tick == HOUR \div 3   \* grid of the instants that are enumerated

Abs(x) == IF x < 0 THEN -x ELSE x

----------------------------------------------------------------------------
(* ISO strings and dateutil.isoparse *)

AbsentStr == [kind |-> "absent", local |-> 0, aware |-> FALSE, off |-> 0]
EmptyStr  == [kind |-> "empty",  local |-> 0, aware |-> FALSE, off |-> 0]
BadStr    == [kind |-> "bad",    local |-> 0, aware |-> FALSE, off |-> 0]
Iso(l, a, o) == [kind |-> "iso", local |-> l, aware |-> a, off |-> o]

\* Python truthiness of a time value: None and "" are falsy
Truthy(s) == s.kind \notin {"absent", "empty"}

\* isoparse(s): ok = FALSE stands for the exception it raises
IsoParse(s) ==
    IF s.kind = "iso"
    THEN [ok |-> TRUE, local |-> s.local, aware |-> s.aware, off |-> s.off]
    ELSE [ok |-> FALSE, local |-> 0, aware |-> FALSE, off |-> 0]

\* `if dt.tzinfo is None: dt = dt.replace(tzinfo=timezone.utc)`
AssumeUtc(d) == IF d.aware THEN d ELSE [d EXCEPT !.aware = TRUE, !.off = 0]

\* the instant an aware datetime denotes
Utc(d) == d.local - d.off

\* abs((a - b).total_seconds()) for two aware datetimes
AbsDelta(a, b) == Abs(Utc(a) - Utc(b))

----------------------------------------------------------------------------
(* StormglassClient._pick_index *)

NoDt == [ok |-> FALSE, local |-> 0, aware |-> FALSE, off |-> 0]

\* PickStep with <= for <: the last of several equally near entries wins
PickStepLastTie(h, i, t_req, best) ==
    LET t == h.time IN
    IF ~Truthy(t) THEN best
    ELSE LET p == IsoParse(t) IN
         IF ~p.ok THEN best
         ELSE LET dt == AssumeUtc(p) IN
              IF ~best.dt.ok \/ AbsDelta(dt, t_req) <= AbsDelta(best.dt, t_req)
              THEN [i |-> i, dt |-> dt]
              ELSE best

\* PickStep without the `continue` of lines 57-62: an entry without a
\* parseable instant is taken while nothing better has been seen
PickStepNoSkip(h, i, t_req, best) ==
    LET t == h.time
        p == IsoParse(t) IN
    IF ~Truthy(t) \/ ~p.ok
    THEN (IF ~best.dt.ok THEN [i |-> i, dt |-> NoDt] ELSE best)
    ELSE LET dt == AssumeUtc(p) IN
         IF ~best.dt.ok \/ AbsDelta(dt, t_req) < AbsDelta(best.dt, t_req)
         THEN [i |-> i, dt |-> dt]
         ELSE best

\* lines 55-66: the loop body for entry i, on the pair <<best_i, best_dt>>
PickStep(h, i, t_req, best) ==
    LET t == h.time IN
    IF ~Truthy(t) THEN best
    ELSE LET p == IsoParse(t) IN
         IF ~p.ok THEN best
         ELSE LET dt == AssumeUtc(p) IN
              IF ~best.dt.ok \/ AbsDelta(dt, t_req) < AbsDelta(best.dt, t_req)
              THEN [i |-> i, dt |-> dt]
              ELSE best

RECURSIVE PickScan(_, _, _, _)
PickScan(hours, t_req, i, best) ==
    IF i > Len(hours) THEN best
    ELSE PickScan(hours, t_req, i + 1, PickStep(hours[i], i - 1, t_req, best))

\* an entry that is not a mapping has no .get: AttributeError at line 56
ScanRaises(hours) == \E i \in 1..Len(hours) : ~hours[i].isdict

\* _pick_index(hours, requested_iso): [raised, idx], idx 0-based as in Python
PickIndex(hours, requested_iso) ==
    IF Len(hours) = 0 THEN [raised |-> FALSE, idx |-> 0]
    ELSE LET r == IF Truthy(requested_iso) THEN IsoParse(requested_iso) ELSE NoDt IN
         IF ~r.ok THEN [raised |-> FALSE, idx |-> 0]
         ELSE IF ScanRaises(hours) THEN [raised |-> TRUE, idx |-> 0]
         ELSE [raised |-> FALSE,
               idx |-> PickScan(hours, AssumeUtc(r), 1, [i |-> 0, dt |-> NoDt]).i]

----------------------------------------------------------------------------
(* JSON values of a sample's fields and StormglassClient._get_value *)

\* the variables requested at lines 108-114 and read at lines 149-155
TrackedVars == {"windSpeed", "windDirection", "waveHeight", "waveDirection",
                "swellHeight", "swellDirection", "windWaveHeight",
                "windWaveDirection", "currentSpeed", "currentDirection",
                "waterTemperature"}

\* a scalar: kind "num" a JSON number, "numstr" a string float() accepts,
\* "str" any other string, "list" a list, "null" None
Null     == [k |-> "null", n |-> 0]
Num(n)   == [k |-> "num", n |-> n]
NumStr(n) == [k |-> "numstr", n |-> n]
Str      == [k |-> "str", n |-> 0]
List     == [k |-> "list", n |-> 0]

\* a field of a sample: a scalar, a source mapping m (an ordered sequence of
\* [src, v] with distinct src), or "absent" when the key is missing
Field(s)  == [k |-> s.k, n |-> s.n, m |-> <<>>]
Absent    == [k |-> "absent", n |-> 0, m |-> <<>>]
SrcMap(m) == [k |-> "map", n |-> 0, m |-> m]

\* _is_number(x): float(x) does not raise
IsNumber(x) == x.k \in {"num", "numstr"}

\* float(x) for an x that _is_number accepts
Float(x) == Num(x.n)

HasKey(m, s) == \E j \in 1..Len(m) : m[j].src = s
Lookup(m, s) == m[CHOOSE j \in 1..Len(m) : m[j].src = s].v

\* lines 83-86: first numeric value in the mapping's iteration order
RECURSIVE FirstNumeric(_, _)
FirstNumeric(m, j) ==
    IF j > Len(m) THEN Null
    ELSE IF IsNumber(m[j].v) THEN Float(m[j].v)
    ELSE FirstNumeric(m, j + 1)

\* ResolveField without lines 80-81: the preferred source is never tried
ResolveFieldNoPreferred(val, preferred_source) ==
    IF val.k = "map"
    THEN IF HasKey(val.m, "sg") /\ IsNumber(Lookup(val.m, "sg"))
         THEN Float(Lookup(val.m, "sg"))
         ELSE FirstNumeric(val.m, 1)
    ELSE IF IsNumber(val) THEN Float(val) ELSE Null

\* lines 75-88 on the value found under the key
ResolveField(val, preferred_source) ==
    IF val.k = "map"
    THEN IF HasKey(val.m, "sg") /\ IsNumber(Lookup(val.m, "sg"))
         THEN Float(Lookup(val.m, "sg"))
         ELSE IF HasKey(val.m, preferred_source)
                 /\ IsNumber(Lookup(val.m, preferred_source))
         THEN Float(Lookup(val.m, preferred_source))
         ELSE FirstNumeric(val.m, 1)
    ELSE IF IsNumber(val) THEN Float(val) ELSE Null

\* _get_value(hour_obj, key): hour_obj.get raises when hour_obj is no mapping
GetValue(hour_obj, key, preferred_source) ==
    IF ~hour_obj.isdict THEN [raised |-> TRUE, v |-> Null]
    ELSE [raised |-> FALSE, v |-> ResolveField(hour_obj.fields[key], preferred_source)]

----------------------------------------------------------------------------
(* StormglassClient.nearest_hour, fetch_point, extract_values *)

\* nearest_hour(dtobj): to UTC, then minute = second = 0
NearestHour(d) ==
    LET u == IF d.aware THEN [d EXCEPT !.local = d.local - d.off, !.off = 0]
             ELSE AssumeUtc(d)
    IN [u EXCEPT !.local = (u.local \div HOUR) * HOUR]

\* datetime.isoformat() of an aware datetime
IsoFormat(d) == Iso(d.local, d.aware, d.off)

EmptyRaw == [isdict |-> TRUE, hours |-> <<>>, data |-> <<>>]

\* fetch_point(lat, lon, dtobj) against an upstream that behaves as `up`:
\* up.fail is any exception of _get (timeout, network, HTTP status, bad JSON)
FetchPoint(dtobj, up) ==
    LET target == NearestHour(dtobj) IN
    [requested_iso |-> IsoFormat(target),
     start |-> target.local - HOUR,
     end   |-> target.local + HOUR,
     raw   |-> IF up.fail THEN EmptyRaw ELSE up.raw,
     units |-> [wind |-> "mps", current |-> "mps"]]

\* lines 157-164: the record when there are no samples.  The list literal of
\* these lines is corrupt in the source; every variable of the success path
\* set to None is the behaviour the specification defines for the branch
NoSampleValues == [k \in TrackedVars |-> Null]

\* ExtractValues without the guards of lines 143 and 145: index 0 is used to
\* read hours[0] even when there are no samples (IndexError)
ExtractValuesUnguarded(payload, requested_iso, preferred_source) ==
    LET req   == IF Truthy(requested_iso) THEN requested_iso ELSE payload.requested_iso
        raw   == payload.raw
        h0    == IF raw.isdict THEN raw.hours ELSE <<>>
        hours == IF Len(h0) = 0 THEN (IF raw.isdict THEN raw.data ELSE <<>>) ELSE h0
        p     == PickIndex(hours, req)
    IN IF p.raised \/ p.idx + 1 > Len(hours)
       THEN [raised |-> TRUE, iso_time |-> AbsentStr, vals |-> NoSampleValues]
       ELSE LET h == hours[p.idx + 1] IN
            IF ~h.isdict
            THEN [raised |-> TRUE, iso_time |-> AbsentStr, vals |-> NoSampleValues]
            ELSE [raised |-> FALSE, iso_time |-> h.time,
                  vals |-> [k \in TrackedVars |-> GetValue(h, k, preferred_source).v]]

\* extract_values(payload, requested_iso)
ExtractValues(payload, requested_iso, preferred_source) ==
    LET req   == IF Truthy(requested_iso) THEN requested_iso ELSE payload.requested_iso
        raw   == payload.raw
        h0    == IF raw.isdict THEN raw.hours ELSE <<>>
        hours == IF Len(h0) = 0 THEN (IF raw.isdict THEN raw.data ELSE <<>>) ELSE h0
    IN IF Len(hours) = 0
       THEN [raised |-> FALSE, iso_time |-> AbsentStr, vals |-> NoSampleValues]
       ELSE LET p == PickIndex(hours, req) IN
            IF p.raised
            THEN [raised |-> TRUE, iso_time |-> AbsentStr, vals |-> NoSampleValues]
            ELSE LET h == hours[p.idx + 1] IN
                 IF ~h.isdict
                 THEN [raised |-> TRUE, iso_time |-> AbsentStr, vals |-> NoSampleValues]
                 ELSE [raised |-> FALSE, iso_time |-> h.time,
                       vals |-> [k \in TrackedVars |-> GetValue(h, k, preferred_source).v]]

----------------------------------------------------------------------------
(* utils.to_knots and app._fetch_one *)

\* KTS_PER_MPS = 1.9438444924574, kept to four decimals (unit 1/10000)
KTS_PER_MPS == 19438

\* to_knots(mps): None stays None, otherwise float(mps) * KTS_PER_MPS
ToKnots(mps) ==
    IF mps.k = "null" THEN Null
    ELSE IF ~IsNumber(mps) THEN Null
    ELSE Num((mps.n * KTS_PER_MPS) \div 10000)

\* StormglassClient.__init__: preferred_source or "sg"
PreferredSource(p) == IF p = "" THEN "sg" ELSE p

\* the client _safe_client builds: no preferred_source is passed
AppPreferred == PreferredSource("")

\* pd.to_datetime(_ts_iso, utc=True, errors="coerce"): NaT is ok = FALSE
ToDatetimeUtc(s) ==
    LET p == IsoParse(s) IN
    IF ~Truthy(s) \/ ~p.ok THEN NoDt
    ELSE [ok |-> TRUE, local |-> IF p.aware THEN p.local - p.off ELSE p.local,
          aware |-> TRUE, off |-> 0]

NoKt == [k |-> "absent", n |-> 0]

\* the record the except branch of _fetch_one returns (line 126)
ErrorRecord(e, lat, lon, ts_iso) ==
    [kind |-> "error", error |-> e, requested_iso |-> ts_iso,
     req_lat |-> lat, req_lon |-> lon, iso_time |-> AbsentStr,
     vals |-> NoSampleValues, windSpeed_kt |-> NoKt, currentSpeed_kt |-> NoKt]

\* units.get(name, "mps")
UnitOf(u) == IF u = "absent" THEN "mps" ELSE u

\* line 120: wind m/s -> knots
WindSpeedKt(v, wind_unit) ==
    IF v.k = "null" THEN NoKt
    ELSE IF wind_unit # "kn" THEN ToKnots(v) ELSE Float(v)

\* line 123: current m/s -> knots
CurrentSpeedKt(v, current_unit) ==
    IF v.k = "null" THEN NoKt
    ELSE IF current_unit = "mps" THEN ToKnots(v) ELSE Float(v)

\* lines 109-126 of _fetch_one: from the payload to the returned record
ResolvePayload(payload, lat, lon, ts_iso) ==
    LET requested_iso == payload.requested_iso
        values == ExtractValues(payload, requested_iso, AppPreferred)
    IN IF values.raised THEN ErrorRecord("AttributeError", lat, lon, ts_iso)
       ELSE [kind |-> "values", error |-> "", requested_iso |-> requested_iso,
             req_lat |-> lat, req_lon |-> lon, iso_time |-> values.iso_time,
             vals |-> values.vals,
             windSpeed_kt |-> WindSpeedKt(values.vals["windSpeed"],
                                          UnitOf(payload.units.wind)),
             currentSpeed_kt |-> CurrentSpeedKt(values.vals["currentSpeed"],
                                                UnitOf(payload.units.current))]

NoneRecord == [ErrorRecord("", [num |-> FALSE, n |-> 0], [num |-> FALSE, n |-> 0],
                           AbsentStr) EXCEPT !.kind = "none"]

\* _fetch_one(_lat, _lon, _ts_iso, _api_key) against an upstream behaving as up
FetchOne(lat, lon, ts_iso, up) ==
    LET parsed == ToDatetimeUtc(ts_iso) IN
    IF ~parsed.ok THEN NoneRecord
    ELSE IF ~lat.num \/ ~lon.num THEN ErrorRecord("ValueError", lat, lon, ts_iso)
    ELSE ResolvePayload(FetchPoint(parsed, up), lat, lon, ts_iso)

----------------------------------------------------------------------------
(* app.enrich_df *)

\* AppendRow leaving out the row of a point that resolved to no sample
AppendRowSkipFailed(rs, r, res) ==
    IF res.kind = "values" /\ res.iso_time.kind = "absent" THEN rs
    ELSE Append(rs, [empty |-> res.kind = "none", timestamp_utc |-> r.parsed_ts,
                     lat |-> r.lat, lon |-> r.lon, res |-> res])

\* lines 131-141: the row appended for input row r and its result res
AppendRow(rs, r, res) ==
    IF res.kind = "none"
    THEN Append(rs, [empty |-> TRUE, timestamp_utc |-> r.parsed_ts,
                     lat |-> r.lat, lon |-> r.lon, res |-> res])
    ELSE Append(rs, [empty |-> FALSE, timestamp_utc |-> r.parsed_ts,
                     lat |-> r.lat, lon |-> r.lon, res |-> res])

\* lines 158-162: 'to' direction from 'from', NaN where there is none
CurrentDirTo(row) ==
    LET from == row.res.vals["currentDirection"] IN
    IF row.empty \/ row.res.kind # "values" \/ from.k = "null" THEN Null
    ELSE Num((from.n + 180000) % 360000)

\* lines 142-174: the frame built from the rows, one line per row, in order
MakeTable(rs) ==
    [i \in 1..Len(rs) |-> [row |-> rs[i], currentDir_deg_to |-> CurrentDirTo(rs[i])]]

----------------------------------------------------------------------------
(* utils.normalize_input_df: column names are sequences of characters *)

\* the upper-case letters that occur, with their lower-case forms
ToLower == [c \in {"T", "I", "M", "E", "S", "A", "P", "L", "O", "N"} |->
               CASE c = "T" -> "t" [] c = "I" -> "i" [] c = "M" -> "m"
                 [] c = "E" -> "e" [] c = "S" -> "s" [] c = "A" -> "a"
                 [] c = "P" -> "p" [] c = "L" -> "l" [] c = "O" -> "o"
                 [] c = "N" -> "n"]

LowerChar(c) == IF c \in DOMAIN ToLower THEN ToLower[c] ELSE c

\* str.lower()
Lower(s) == [i \in 1..Len(s) |-> LowerChar(s[i])]

\* str.strip()
RECURSIVE Strip(_)
Strip(s) ==
    IF Len(s) = 0 THEN s
    ELSE IF s[1] = " " THEN Strip(Tail(s))
    ELSE IF s[Len(s)] = " " THEN Strip(SubSeq(s, 1, Len(s) - 1))
    ELSE s

IsNotSpace(c) == c # " "

\* str.replace(" ", "")
RemoveSpaces(s) == SelectSeq(s, IsNotSpace)

TIMESTAMP == <<"t", "i", "m", "e", "s", "t", "a", "m", "p">>
LAT == <<"l", "a", "t">>
LON == <<"l", "o", "n">>

\* line 34: the required names in the order they are looked up
Required == <<TIMESTAMP, LAT, LON>>

\* the key line 32 files a column under
ColKey(c) == Lower(Strip(c))

\* line 32: keys of the dict in insertion order (first occurrence of each key)
RECURSIVE ColKeys(_, _)
ColKeys(columns, j) ==
    IF j > Len(columns) THEN <<>>
    ELSE IF \E i \in 1..(j - 1) : ColKey(columns[i]) = ColKey(columns[j])
    THEN ColKeys(columns, j + 1)
    ELSE <<ColKey(columns[j])>> \o ColKeys(columns, j + 1)

\* line 32: the value of the dict under key k, the last column filed under it
ColOf(columns, k) ==
    LET J == {j \in 1..Len(columns) : ColKey(columns[j]) = k}
    IN columns[CHOOSE j \in J : \A i \in J : i <= j]

InSeq(x, q) == \E i \in 1..Len(q) : q[i] = x

\* FindColumn without the fallback of lines 38-40
FindColumnExactOnly(columns, need) ==
    LET keys == ColKeys(columns, 1)
    IN IF InSeq(need, keys) THEN [found |-> TRUE, col |-> ColOf(columns, need)]
       ELSE [found |-> FALSE, col |-> <<>>]

\* lines 35-42 for one required name: the column taken, or found = FALSE
FindColumn(columns, need) ==
    LET keys == ColKeys(columns, 1)
        alts == SelectSeq(keys, LAMBDA k : RemoveSpaces(k) = need)
    IN IF InSeq(need, keys) THEN [found |-> TRUE, col |-> ColOf(columns, need)]
       ELSE IF Len(alts) > 0 THEN [found |-> TRUE, col |-> ColOf(columns, alts[1])]
       ELSE [found |-> FALSE, col |-> <<>>]

\* line 44: rename the three columns taken, then line 45 adds parsed_ts
RenameColumns(columns, req) ==
    [j \in 1..Len(columns) |->
        IF columns[j] = req[1] THEN TIMESTAMP
        ELSE IF columns[j] = req[2] THEN LAT
        ELSE IF columns[j] = req[3] THEN LON
        ELSE columns[j]] \o <<<<"parsed_ts">>>>

\* normalize_input_df on the columns of df: the ValueError names `missing`
NormalizeInputDf(columns) ==
    LET f == <<FindColumn(columns, Required[1]), FindColumn(columns, Required[2]),
               FindColumn(columns, Required[3])>>
        M == {n \in 1..3 : ~f[n].found}
        req == <<f[1].col, f[2].col, f[3].col>>
    IN IF M # {}
       THEN [status |-> "raise",
             missing |-> Required[CHOOSE n \in M : \A k \in M : n <= k],
             req |-> <<>>, columns |-> <<>>]
       ELSE [status |-> "ok", missing |-> <<>>,
             req |-> req, columns |-> RenameColumns(columns, req)]
----------------------------------------------------------------------------
(* Inputs that are enumerated *)

SeqsUpTo(S, n) == UNION {[1..k -> S] : k \in 0..n}

\* sequences without repetition, built by extending the shorter ones
RECURSIVE DistinctSeqsUpTo(_, _)
DistinctSeqsUpTo(S, n) ==
    IF n = 0 THEN {<<>>}
    ELSE LET P == DistinctSeqsUpTo(S, n - 1) IN
         P \cup UNION {{Append(q, x) : x \in S \ {q[i] : i \in 1..Len(q)}} :
                        q \in {r \in P : Len(r) = n - 1}}

NoFields == [k \in TrackedVars |-> Absent]
Sample(t, f) == [isdict |-> TRUE, time |-> t, fields |-> f]
NotAMapping == [isdict |-> FALSE, time |-> AbsentStr, fields |-> NoFields]

PickInstants == {k * Tick : k \in 0..MaxPickTick}
\* naive strings and strings with offset +01:00 (local = instant + HOUR)
PickTimes == {AbsentStr, EmptyStr, BadStr}
             \cup {Iso(t, FALSE, 0) : t \in PickInstants}
             \cup {Iso(t + HOUR, TRUE, HOUR) : t \in PickInstants}
PickRequests == {AbsentStr, BadStr}
                \cup {Iso(t, FALSE, 0) : t \in PickInstants}
                \cup {Iso(t + HOUR, TRUE, HOUR) : t \in PickInstants}

Sources == {"sg", "noaa", "icon", "gfs"}
Scalars == {Null, Num(3400), Num(3500), NumStr(3600), Str, List}
SourceMaps ==
    {m \in SeqsUpTo([src : Sources, v : Scalars], MaxSources) :
        \A i, j \in 1..Len(m) : i # j => m[i].src # m[j].src}
FieldValues == {Absent} \cup {Field(x) : x \in Scalars}
               \cup {SrcMap(m) : m \in SourceMaps}
Preferred == {"", "sg", "noaa"}

\* two fillings of a sample: well formed, and every malformed shape
GoodFields ==
    [k \in TrackedVars |->
        CASE k = "windSpeed" -> SrcMap(<<[src |-> "noaa", v |-> Num(4900)],
                                         [src |-> "sg", v |-> Num(5000)]>>)
          [] k = "windDirection" -> Field(Num(270000))
          [] k = "currentSpeed" -> Field(Num(1000))
          [] k = "currentDirection" -> SrcMap(<<[src |-> "sg", v |-> Num(200000)]>>)
          [] k = "waveHeight" -> SrcMap(<<[src |-> "icon", v |-> NumStr(2000)]>>)
          [] OTHER -> Absent]
OddFields ==
    [k \in TrackedVars |->
        CASE k = "windSpeed" -> Field(Str)
          [] k = "windDirection" -> Field(Null)
          [] k = "currentSpeed" -> SrcMap(<<[src |-> "sg", v |-> Str],
                                            [src |-> "noaa", v |-> List]>>)
          [] k = "currentDirection" -> Field(List)
          [] k = "waveHeight" -> SrcMap(<<>>)
          [] k = "swellHeight" -> Field(NumStr(1500))
          [] OTHER -> Absent]

FetchInstants == {2 * Tick, 3 * Tick, 5 * Tick}
SampleInstants == {0, HOUR, 2 * HOUR}
FetchSamples == {NotAMapping}
                \cup {Sample(Iso(t, TRUE, 0), f) :
                        t \in SampleInstants, f \in {GoodFields, OddFields}}
                \cup {Sample(t, GoodFields) : t \in {AbsentStr, BadStr}}
Raws == {[isdict |-> FALSE, hours |-> <<>>, data |-> <<>>]}
        \cup {[isdict |-> TRUE, hours |-> h, data |-> <<>>] :
                h \in SeqsUpTo(FetchSamples, MaxSamples)}
        \cup {[isdict |-> TRUE, hours |-> <<>>, data |-> <<x>>] : x \in FetchSamples}
Failures == {"timeout", "network", "http status", "malformed json"}
Upstreams == {[fail |-> TRUE, why |-> w, raw |-> EmptyRaw] : w \in Failures}
             \cup {[fail |-> FALSE, why |-> "", raw |-> r] : r \in Raws}

Coord(n) == [num |-> TRUE, n |-> n]
NotACoord == [num |-> FALSE, n |-> 0]
FetchRequests == [lat : {Coord(40000), NotACoord}, lon : {Coord(-40000)},
                  ts : {Iso(t, TRUE, 0) : t \in FetchInstants}]

----------------------------------------------------------------------------
(* Idle values of the calls a specification does not make *)

IdlePick  == pHours = <<>> /\ pReq = AbsentStr
             /\ pOut = [done |-> FALSE, raised |-> FALSE, idx |-> 0]
IdleValue == vObj = NotAMapping /\ vPref = ""
             /\ vOut = [done |-> FALSE, raised |-> FALSE, v |-> Null]
IdleFetch == fReq = [lat |-> NotACoord, lon |-> NotACoord, ts |-> AbsentStr]
             /\ fUp = [fail |-> TRUE, why |-> "", raw |-> EmptyRaw]
             /\ fOut = [done |-> FALSE, rec |-> NoneRecord]
IdleUnits == uPayload = [requested_iso |-> AbsentStr, start |-> 0, end |-> 0,
                         raw |-> EmptyRaw,
                         units |-> [wind |-> "absent", current |-> "absent"]]
             /\ uOut = [done |-> FALSE, rec |-> NoneRecord]
IdleBatch == points = <<>> /\ ups = <<>> /\ rows = <<>> /\ pc = "idle"
             /\ table = <<>>
IdleNorm  == nCols = <<>>
             /\ nOut = [done |-> FALSE, status |-> "idle", missing |-> <<>>,
                        req |-> <<>>, columns |-> <<>>]

----------------------------------------------------------------------------
(* One call of _pick_index *)

InitPick ==
    /\ pHours \in SeqsUpTo({Sample(t, NoFields) : t \in PickTimes}, MaxHours)
    /\ pReq \in PickRequests
    /\ pOut = [done |-> FALSE, raised |-> FALSE, idx |-> 0]
    /\ IdleValue /\ IdleFetch /\ IdleUnits /\ IdleBatch /\ IdleNorm

PickIndexCall ==
    /\ ~pOut.done
    /\ pOut' = [done |-> TRUE, raised |-> PickIndex(pHours, pReq).raised,
                idx |-> PickIndex(pHours, pReq).idx]
    /\ UNCHANGED <<pHours, pReq, vObj, vPref, vOut, fReq, fUp, fOut, uPayload,
                   uOut, points, ups, rows, pc, table, nCols, nOut>>

NextPick == PickIndexCall
SpecPick == InitPick /\ [][NextPick]_vars

----------------------------------------------------------------------------
(* One call of _get_value *)

InitValue ==
    /\ vObj \in {Sample(AbsentStr, [NoFields EXCEPT !["windSpeed"] = x]) :
                    x \in FieldValues}
    /\ vPref \in Preferred
    /\ vOut = [done |-> FALSE, raised |-> FALSE, v |-> Null]
    /\ IdlePick /\ IdleFetch /\ IdleUnits /\ IdleBatch /\ IdleNorm

GetValueCall ==
    /\ ~vOut.done
    /\ vOut' = [done |-> TRUE,
                raised |-> GetValue(vObj, "windSpeed", PreferredSource(vPref)).raised,
                v |-> GetValue(vObj, "windSpeed", PreferredSource(vPref)).v]
    /\ UNCHANGED <<pHours, pReq, pOut, vObj, vPref, fReq, fUp, fOut, uPayload,
                   uOut, points, ups, rows, pc, table, nCols, nOut>>

NextValue == GetValueCall
SpecValue == InitValue /\ [][NextValue]_vars

----------------------------------------------------------------------------
(* One call of _fetch_one *)

InitFetch ==
    /\ fReq \in FetchRequests
    /\ fUp \in Upstreams
    /\ fOut = [done |-> FALSE, rec |-> NoneRecord]
    /\ IdlePick /\ IdleValue /\ IdleUnits /\ IdleBatch /\ IdleNorm

FetchOneCall ==
    /\ ~fOut.done
    /\ fOut' = [done |-> TRUE, rec |-> FetchOne(fReq.lat, fReq.lon, fReq.ts, fUp)]
    /\ UNCHANGED <<pHours, pReq, pOut, vObj, vPref, vOut, fReq, fUp, uPayload,
                   uOut, points, ups, rows, pc, table, nCols, nOut>>

NextFetch == FetchOneCall
SpecFetch == InitFetch /\ [][NextFetch]_vars

----------------------------------------------------------------------------
(* The unit step of _fetch_one on a payload, whatever units it reports *)

UnitNames == {"absent", "mps", "kn", "kt", "kph"}
Speeds == {Null, Num(1000), Num(5000)}
UnitPayloads ==
    {[requested_iso |-> Iso(HOUR, TRUE, 0), start |-> 0, end |-> 2 * HOUR,
      raw |-> [isdict |-> TRUE, data |-> <<>>,
               hours |-> <<Sample(Iso(HOUR, TRUE, 0),
                                  [NoFields EXCEPT !["windSpeed"] = Field(w),
                                                   !["currentSpeed"] = Field(c)])>>],
      units |-> [wind |-> uw, current |-> uc]] :
        w \in Speeds, c \in Speeds, uw \in UnitNames, uc \in UnitNames}

InitUnits ==
    /\ uPayload \in UnitPayloads
    /\ uOut = [done |-> FALSE, rec |-> NoneRecord]
    /\ IdlePick /\ IdleValue /\ IdleFetch /\ IdleBatch /\ IdleNorm

ResolvePayloadCall ==
    /\ ~uOut.done
    /\ uOut' = [done |-> TRUE,
                rec |-> ResolvePayload(uPayload, Coord(40000), Coord(-40000),
                                       uPayload.requested_iso)]
    /\ UNCHANGED <<pHours, pReq, pOut, vObj, vPref, vOut, fReq, fUp, fOut,
                   uPayload, points, ups, rows, pc, table, nCols, nOut>>

NextUnits == ResolvePayloadCall
SpecUnits == InitUnits /\ [][NextUnits]_vars

----------------------------------------------------------------------------
(* One run of enrich_df over a batch of request points *)

Dt(t) == [ok |-> TRUE, local |-> t, aware |-> TRUE, off |-> 0]
BatchPoints == {[lat |-> Coord(40000), lon |-> Coord(-40000), parsed_ts |-> Dt(5 * Tick)],
                [lat |-> Coord(10000), lon |-> Coord(20000), parsed_ts |-> Dt(HOUR)],
                [lat |-> NotACoord, lon |-> Coord(0), parsed_ts |-> Dt(2 * Tick)]}
BatchUpstreams ==
    {[fail |-> TRUE, why |-> "timeout", raw |-> EmptyRaw],
     [fail |-> FALSE, why |-> "",
      raw |-> [isdict |-> TRUE, data |-> <<>>,
               hours |-> <<Sample(Iso(0, TRUE, 0), OddFields),
                           Sample(Iso(HOUR, TRUE, 0), GoodFields),
                           Sample(Iso(2 * HOUR, TRUE, 0), GoodFields)>>]],
     [fail |-> FALSE, why |-> "",
      raw |-> [isdict |-> TRUE, data |-> <<>>, hours |-> <<NotAMapping>>]]}

Init ==
    /\ points \in SeqsUpTo(BatchPoints, MaxPoints)
    /\ ups = <<>> /\ rows = <<>> /\ table = <<>> /\ pc = "loop"
    /\ IdlePick /\ IdleValue /\ IdleFetch /\ IdleUnits /\ IdleNorm

\* one iteration of the loop at line 130, the upstream behaving as up
EnrichFetch ==
    /\ pc = "loop" /\ Len(ups) < Len(points)
    /\ \E up \in BatchUpstreams :
        LET r == points[Len(ups) + 1] IN
        /\ rows' = AppendRow(rows, r, FetchOne(r.lat, r.lon, IsoFormat(r.parsed_ts), up))
        /\ ups' = Append(ups, up)
    /\ UNCHANGED <<pHours, pReq, pOut, vObj, vPref, vOut, fReq, fUp, fOut,
                   uPayload, uOut, points, pc, table, nCols, nOut>>

\* lines 142-174 once the loop has ended
EnrichFinish ==
    /\ pc = "loop" /\ Len(ups) = Len(points)
    /\ table' = MakeTable(rows) /\ pc' = "done"
    /\ UNCHANGED <<pHours, pReq, pOut, vObj, vPref, vOut, fReq, fUp, fOut,
                   uPayload, uOut, points, ups, rows, nCols, nOut>>

Next == EnrichFetch \/ EnrichFinish
Spec == Init /\ [][Next]_vars

----------------------------------------------------------------------------
(* One call of normalize_input_df *)

ColumnNames ==
    {LAT, <<"L", "a", "t">>, <<" ", "l", "a", "t", " ">>, <<"l", " ", "a", "t">>,
     LON, <<"L", "O", "N", " ">>, <<"l", "n", "g">>,
     TIMESTAMP, <<"T", "i", "m", "e", " ", "S", "t", "a", "m", "p">>,
     <<"t", "i", "m", "e">>}

InitNorm ==
    /\ nCols \in DistinctSeqsUpTo(ColumnNames, MaxCols)
    /\ nOut = [done |-> FALSE, status |-> "idle", missing |-> <<>>,
               req |-> <<>>, columns |-> <<>>]
    /\ IdlePick /\ IdleValue /\ IdleFetch /\ IdleUnits /\ IdleBatch

NormalizeCall ==
    /\ ~nOut.done
    /\ LET r == NormalizeInputDf(nCols) IN
       nOut' = [done |-> TRUE, status |-> r.status, missing |-> r.missing,
                req |-> r.req, columns |-> r.columns]
    /\ UNCHANGED <<pHours, pReq, pOut, vObj, vPref, vOut, fReq, fUp, fOut,
                   uPayload, uOut, points, ups, rows, pc, table, nCols>>

NextNorm == NormalizeCall
SpecNorm == InitNorm /\ [][NextNorm]_vars

----------------------------------------------------------------------------
(* Properties *)

\* the instant an ISO string denotes, a string without offset read as UTC
InstantOf(s) == IF s.aware THEN s.local - s.off ELSE s.local
Parseable(s) == s.kind = "iso"

\* the samples extract_values reads: `hours`, or `data` when there are none
SamplesOf(raw) ==
    IF ~raw.isdict THEN <<>> ELSE IF Len(raw.hours) > 0 THEN raw.hours ELSE raw.data

\* a fetch that reached the upstream and got well formed hourly samples
GoodResponse ==
    /\ fReq.lat.num /\ fReq.lon.num /\ ~fUp.fail
    /\ Len(SamplesOf(fUp.raw)) > 0
    /\ \A i \in 1..Len(SamplesOf(fUp.raw)) :
          SamplesOf(fUp.raw)[i].isdict /\ Parseable(SamplesOf(fUp.raw)[i].time)

\* C1: on success the sample whose values go into the Resolved Record is one
\* whose instant is nearest to the instant the caller requested (not to a
\* rounded version of it).
C1_NearestToRequested ==
    (fOut.done /\ GoodResponse) =>
        /\ fOut.rec.kind = "values"
        /\ Parseable(fOut.rec.iso_time)
        /\ \A i \in 1..Len(SamplesOf(fUp.raw)) :
              Abs(InstantOf(fOut.rec.iso_time) - InstantOf(fReq.ts))
                 <= Abs(InstantOf(SamplesOf(fUp.raw)[i].time) - InstantOf(fReq.ts))

\* C2: when the upstream call fails at transport level the Resolved Record
\* holds an `error` field with a non-empty description together with the
\* originally requested lat, lon and timestamp.
C2_FailureGivesErrorRecord ==
    (fOut.done /\ fUp.fail /\ fReq.lat.num /\ fReq.lon.num) =>
        /\ fOut.rec.kind = "error"
        /\ fOut.rec.error # ""
        /\ fOut.rec.req_lat = fReq.lat /\ fOut.rec.req_lon = fReq.lon
        /\ fOut.rec.requested_iso = fReq.ts

ParseableEntries == {i \in 1..Len(pHours) : Parseable(pHours[i].time)}
Distance(i) == Abs(InstantOf(pHours[i].time) - InstantOf(pReq))

\* C3: given a parseable requested instant and at least one entry with a
\* parseable instant, _pick_index returns the index of the parseable entry
\* nearest to the requested instant, the smallest index among equally near
\* ones; a sample at exactly the requested instant is therefore met exactly.
C3_NearestFirst ==
    (pOut.done /\ Parseable(pReq) /\ ParseableEntries # {}) =>
        /\ ~pOut.raised
        /\ pOut.idx + 1 \in ParseableEntries
        /\ \A j \in ParseableEntries :
              /\ Distance(pOut.idx + 1) <= Distance(j)
              /\ Distance(j) = Distance(pOut.idx + 1) => pOut.idx + 1 <= j
        /\ (\E j \in ParseableEntries : Distance(j) = 0) => Distance(pOut.idx + 1) = 0

\* C3 witness: the first entry has no instant, the second and third are equally
\* near on either side of the requested instant, and the second is returned
C3_Witness ==
    /\ pOut.done /\ Parseable(pReq) /\ Len(pHours) = 3
    /\ ~Parseable(pHours[1].time) /\ Parseable(pHours[2].time) /\ Parseable(pHours[3].time)
    /\ InstantOf(pHours[2].time) # InstantOf(pHours[3].time)
    /\ Distance(2) = Distance(3) /\ pHours[2].time.aware # pHours[3].time.aware
    /\ pOut.idx = 1

\* C4 as stated: for every non-empty sequence and every requested value the
\* returned index never points at an entry without a parseable instant, and
\* the call does not raise.
C4_NeverUnparseable ==
    (pOut.done /\ Len(pHours) > 0) =>
        /\ ~pOut.raised
        /\ pOut.idx + 1 \in ParseableEntries

\* C4 amended: the call never raises and returns an index inside the
\* sequence; it points at an entry with a parseable instant whenever the
\* requested instant is parseable and some entry has one, and is 0 otherwise.
C4_SkipsUnparseable ==
    (pOut.done /\ Len(pHours) > 0) =>
        /\ ~pOut.raised
        /\ pOut.idx + 1 \in 1..Len(pHours)
        /\ IF Parseable(pReq) /\ ParseableEntries # {}
           THEN pOut.idx + 1 \in ParseableEntries
           ELSE pOut.idx = 0

\* C4 witness: entries with a missing, an empty and an unparseable time come
\* before the only parseable one, which is returned
C4_Witness ==
    /\ pOut.done /\ Parseable(pReq) /\ Len(pHours) = 3
    /\ {pHours[1].time.kind, pHours[2].time.kind} \subseteq {"absent", "empty", "bad"}
    /\ pHours[1].time.kind # pHours[2].time.kind
    /\ Parseable(pHours[3].time) /\ pOut.idx = 2 /\ ~pOut.raised

Priority == <<"sg", PreferredSource(vPref)>>
NumericAt(m, s) == \E j \in 1..Len(m) : m[j].src = s /\ m[j].v.k \in {"num", "numstr"}
ValueAt(m, s) == (CHOOSE e \in {m[j] : j \in 1..Len(m)} : e.src = s).v.n
NumericPositions(m) == {j \in 1..Len(m) : m[j].v.k \in {"num", "numstr"}}

\* what the source priority rule yields for a field
Expected(val) ==
    IF val.k \in {"num", "numstr"} THEN Num(val.n)
    ELSE IF val.k # "map" THEN Null
    ELSE IF \E p \in 1..2 : NumericAt(val.m, Priority[p])
    THEN Num(ValueAt(val.m, Priority[CHOOSE p \in 1..2 :
                /\ NumericAt(val.m, Priority[p])
                /\ \A q \in 1..2 : NumericAt(val.m, Priority[q]) => p <= q]))
    ELSE IF NumericPositions(val.m) # {}
    THEN Num(val.m[CHOOSE j \in NumericPositions(val.m) :
                \A i \in NumericPositions(val.m) : j <= i].v.n)
    ELSE Null

\* C5: _get_value returns a bare numeric field as is; for a source mapping
\* the value of the first of "sg", the preferred source that is numeric,
\* else the first numeric value in iteration order; null when the mapping holds
\* no numeric value or the field is absent.
C5_SourcePriority ==
    vOut.done => (~vOut.raised /\ vOut.v = Expected(vObj.fields["windSpeed"]))

\* C5 witness: "sg" is present but not numeric, the preferred source "noaa" is
\* numeric and comes after another numeric source, and its value is returned
C5_Witness ==
    /\ vOut.done /\ vPref = "noaa"
    /\ LET m == vObj.fields["windSpeed"].m IN
       /\ Len(m) = 3
       /\ m[1].src = "icon" /\ m[1].v = Num(3400)
       /\ m[2].src = "sg" /\ m[2].v = Str
       /\ m[3].src = "noaa" /\ m[3].v = NumStr(3600)
    /\ vOut.v = Num(3600)

\* C6: extracting the tracked variables from the selected sample never ends
\* with an exception, whatever the shape of the upstream data.
C6_ExtractionNeverRaises ==
    (fOut.done /\ fReq.lat.num /\ fReq.lon.num) =>
        /\ ~ExtractValues(FetchPoint(ToDatetimeUtc(fReq.ts), fUp),
                          IsoFormat(NearestHour(ToDatetimeUtc(fReq.ts))),
                          AppPreferred).raised
        /\ fOut.rec.kind = "values"

RawSpeed(name) == uPayload.raw.hours[1].fields[name]
Knots(v) == IF v.k = "null" THEN NoKt ELSE Num((v.n * KTS_PER_MPS) \div 10000)
Unchanged(v) == IF v.k = "null" THEN NoKt ELSE Num(v.n)

OwnRecord(i) ==
    FetchOne(points[i].lat, points[i].lon, IsoFormat(points[i].parsed_ts), ups[i])

\* C8: whatever subset of the points fails upstream, enrich_df fetches every
\* point and returns exactly one row per input point in input order, each row
\* being what its own point resolves to.
C8_BatchIsolated ==
    pc = "done" =>
        /\ Len(ups) = Len(points)
        /\ Len(table) = Len(points)
        /\ \A i \in 1..Len(points) :
              /\ table[i].row.timestamp_utc = points[i].parsed_ts
              /\ table[i].row.lat = points[i].lat
              /\ table[i].row.lon = points[i].lon
              /\ table[i].row.res = OwnRecord(i)

\* C8 witness: a batch of three points whose first and third fetch fail at
\* transport level, the second resolving to a sample
C8_Witness ==
    /\ pc = "done" /\ Len(points) = 3 /\ Len(table) = 3
    /\ ups[1].fail /\ ~ups[2].fail /\ ups[3].fail
    /\ points[1] # points[2]
    /\ table[2].row.res.kind = "values"
    /\ Parseable(table[2].row.res.iso_time)
    /\ table[2].row.res.windSpeed_kt.k = "num"

\* case- and whitespace-insensitive match of a column against a required name
Matches(c, need) == Lower(RemoveSpaces(c)) = need
MatchingColumns(need) == {j \in 1..Len(nCols) : Matches(nCols[j], need)}
MissingNames == {n \in 1..3 : MatchingColumns(Required[n]) = {}}

\* C9: for each required name the column renamed to it and used is the first
\* matching column in the table's column order.
C9_FirstVariantUsed ==
    (nOut.done /\ nOut.status = "ok") =>
        \A n \in 1..3 :
            nOut.req[n] = nCols[CHOOSE j \in MatchingColumns(Required[n]) :
                                  \A i \in MatchingColumns(Required[n]) : j <= i]

NoSamples ==
    /\ fReq.lat.num /\ fReq.lon.num
    /\ Len(SamplesOf(FetchPoint(ToDatetimeUtc(fReq.ts), fUp).raw)) = 0

\* the keys extract_values sets beside iso_time on the success path
SuccessKeys ==
    DOMAIN ExtractValues(
        [requested_iso |-> Iso(HOUR, TRUE, 0), start |-> 0, end |-> 2 * HOUR,
         raw |-> [isdict |-> TRUE, data |-> <<>>,
                  hours |-> <<Sample(Iso(HOUR, TRUE, 0), GoodFields)>>],
         units |-> [wind |-> "mps", current |-> "mps"]],
        Iso(HOUR, TRUE, 0), AppPreferred).vals

\* what extract_values returns for the payload of the fetch
Extracted ==
    ExtractValues(FetchPoint(ToDatetimeUtc(fReq.ts), fUp),
                  IsoFormat(NearestHour(ToDatetimeUtc(fReq.ts))), AppPreferred)

====
